---- MODULE Spec2Model ----
(***************************************************************************)
(* A model of CppSerializer (my_serializer.h): the Base64 transform of     *)
(* XMLConverter, the binary codec, the XML codec and the entry points      *)
(* generated for plain values and for MY_SERIALIZE records.                *)
(*                                                                         *)
(* Characters and bytes are integers: a char is its code (ASCII, 0..127),  *)
(* an unsigned char is 0..255.  A std::string or std::vector<unsigned      *)
(* char> is a sequence of them.                                            *)
(***************************************************************************)
EXTENDS Integers, Sequences, FiniteSets, TLC

(***************************************************************************)
(* Bounds of the model.                                                    *)
(***************************************************************************)
\* longest byte sequence handed to base64_encode
MaxBytes == 4
\* longest arbitrary string handed to base64_decode
MaxText == 5

\* the bytes the encoder's inputs are drawn from: a zero byte, all ones, and
\* two bytes whose 6-bit groups straddle the byte borders
SampleBytes == {0, 255, 77, 130}
\* the characters arbitrary decoder inputs are drawn from:
\* 'Q', '/', '=', ' ', newline
SampleChars == {81, 47, 61, 32, 10}

RECURSIVE SeqsUpTo(_, _)
SeqsUpTo(S, n) ==
  IF n = 0 THEN {<<>>}
  ELSE LET shorter == SeqsUpTo(S, n - 1)
       IN  shorter \cup {Append(s, x) : s \in {t \in shorter : Len(t) = n - 1}, x \in S}

(***************************************************************************)
(* XMLConverter: the Base64 transform.                                     *)
(***************************************************************************)
\* "ABCDEFGHIJKLMNOPQRSTUVWXYZabcdefghijklmnopqrstuvwxyz0123456789+/"
base64_chars ==
  [k \in 1..26 |-> 64 + k] \o [k \in 1..26 |-> 96 + k] \o
  [k \in 1..10 |-> 47 + k] \o <<43, 47>>

\* std::string::npos, as the result of a failed find
npos == -1

\* '='
PadChar == 61

\* base64_chars.find(c): the 0-based position of c, or npos
Find(c) ==
  LET at == {k \in 1..Len(base64_chars) : base64_chars[k] = c}
  IN  IF at = {} THEN npos ELSE (CHOOSE k \in at : TRUE) - 1

\* isalnum(c) in the "C" locale, for an ASCII character
isalnum(c) ==
  \/ c \in 48..57
  \/ c \in 65..90
  \/ c \in 97..122

\* the filter both loops of base64_decode apply: isalnum(c) || c == '+' || c == '/'
IsAlphabetChar(c) == isalnum(c) \/ c = 43 \/ c = 47

\* the four 6-bit values of a 3-byte group (lines 276-281 and 295-300)
Group4(ca3) ==
  << ca3[1] \div 4,
     (ca3[1] % 4) * 16 + (ca3[2] \div 16),
     (ca3[2] % 16) * 4 + (ca3[3] \div 64),
     ca3[3] % 64 >>

\* the three bytes of four 6-bit values, each stored into an unsigned char
\* (lines 362-366 and 390-394)
Group3(ca4) ==
  << (ca4[1] * 4 + ((ca4[2] \div 16) % 4)) % 256,
     ((ca4[2] % 16) * 16 + ((ca4[3] \div 4) % 16)) % 256,
     ((ca4[3] % 4) * 64 + ca4[4]) % 256 >>

\* base64_chars[char_array_4[j]] for j = 0 .. n-1
AlphabetChars(ca4, n) == [j \in 1..n |-> base64_chars[ca4[j] + 1]]

\* a sequence given by a function on 1..n, as a tuple
Tuple(f) == SubSeq(f, 1, Len(f))

\* the for loop of base64_encode over the input, as the state it leaves:
\* every full group of three bytes has been encoded, i bytes of a partial
\* group are in char_array_3
EncodeLoop(data) ==
  LET groups  == Len(data) \div 3
      i       == Len(data) % 3
      ca3(g)  == SubSeq(data, 3 * g - 2, 3 * g)
      last    == IF groups = 0 THEN <<0, 0, 0>> ELSE ca3(groups)
      out     == Tuple([g \in 1..groups |-> AlphabetChars(Group4(ca3(g)), 4)])
  IN  [i            |-> i,
       char_array_3 |-> [j \in 1..3 |-> IF j <= i THEN data[3 * groups + j]
                                        ELSE last[j]],
       encoded      |-> Tuple([k \in 1..(4 * groups) |->
                                 out[((k - 1) \div 4) + 1][((k - 1) % 4) + 1]])]

PadCount_NoPad(i) == 0
PadCount_OneShort(i) == 2 - i

\* while (i++ < 3) encoded += '=': the number of '=' appended
PadCount(i) == 3 - i

\* if (i > 0) { ... }: the trailing partial group
EncodeTail(st) ==
  IF st.i > 0
  THEN LET i   == st.i
           c3  == [j \in 1..3 |-> IF j > i THEN 0 ELSE st.char_array_3[j]]
           ca4 == Group4(c3)
       IN  st.encoded \o AlphabetChars(ca4, i + 1)
                      \o [k \in 1..PadCount(i) |-> PadChar]
  ELSE st.encoded

base64_encode(data) == EncodeTail(EncodeLoop(data))

\* a decoder result: the bytes returned, or the MyErr thrown
Bytes(ret) == [status |-> "ok", bytes |-> ret]
MyErr(what) == [status |-> "MyErr", what |-> what]

\* a filter that keeps every character
CleanEncoded_KeepAll(s) == s

\* clean_encoded: the characters of the input that pass the filter
CleanEncoded(s) == SelectSeq(s, LAMBDA c : IsAlphabetChar(c) \/ c = PadChar)

CleanLengthOK_Any(clean) == TRUE

\* clean_encoded.length() % 4 == 0
CleanLengthOK(clean) == Len(clean) % 4 = 0

\* the lookups of a full group: npos where a character is not in the table
Lookup4(ca4) == <<Find(ca4[1]), Find(ca4[2]), Find(ca4[3]), Find(ca4[4])>>

\* whether the while loop of base64_decode goes on at in_ (0-based)
LoopCondition(clean, in_) ==
  in_ < Len(clean) /\ clean[in_ + 1] # PadChar /\ IsAlphabetChar(clean[in_ + 1])

\* the while loop of base64_decode, as the state it leaves.  It consumes the
\* characters before the first one that fails its condition, a full group of
\* four at a time, and throws at the first group with a character that is not
\* in the table; i characters of a partial group are left in char_array_4
DecodeLoop(clean) ==
  LET stops(n) == ~LoopCondition(clean, n) /\
                  \A m \in 0..(n - 1) : LoopCondition(clean, m)
      in_      == CHOOSE n \in 0..Len(clean) : stops(n)
      groups   == in_ \div 4
      i        == in_ % 4
      ca4(g)   == SubSeq(clean, 4 * g - 3, 4 * g)
      pos      == Tuple([g \in 1..groups |-> Lookup4(ca4(g))])
      bad(g)   == \E j \in 1..4 : pos[g][j] = npos
      out      == Tuple([g \in 1..groups |-> Group3(pos[g])])
      last     == IF groups = 0 THEN <<0, 0, 0, 0>> ELSE pos[groups]
      ret(n)   == Tuple([k \in 1..(3 * n) |->
                           out[((k - 1) \div 3) + 1][((k - 1) % 3) + 1]])
  IN  IF \E g \in 1..groups : bad(g)
      THEN LET g == CHOOSE h \in 1..groups :
                      bad(h) /\ \A e \in 1..(h - 1) : ~bad(e)
           IN  [thrown |-> TRUE, i |-> 0, char_array_4 |-> ca4(g), ret |-> ret(g - 1)]
      ELSE [thrown |-> FALSE, i |-> i,
            char_array_4 |-> [j \in 1..4 |-> IF j <= i THEN clean[4 * groups + j]
                                             ELSE last[j]],
            ret |-> ret(groups)]

TailBytes_All(i) == i

\* for (j = 0; j < (i - 1); j++): the bytes the trailing group contributes
TailBytes(i) == i - 1

\* if (i > 0) { ... }: the trailing group; a character that is not found
\* decodes as 0
DecodeTail(st) ==
  IF st.i > 0
  THEN LET i   == st.i
           c4  == [j \in 1..4 |-> IF j > i THEN 0 ELSE st.char_array_4[j]]
           pos == [j \in 1..4 |-> IF Find(c4[j]) # npos THEN Find(c4[j]) ELSE 0]
       IN  st.ret \o SubSeq(Group3(pos), 1, TailBytes(i))
  ELSE st.ret

base64_decode(encoded_string) ==
  IF encoded_string = <<>> THEN Bytes(<<>>)
  ELSE LET clean == CleanEncoded(encoded_string)
       IN  IF ~CleanLengthOK(clean)
           THEN MyErr("Invalid Base64 string length.")
           ELSE LET st == DecodeLoop(clean)
                IN  IF st.thrown
                    THEN MyErr("Invalid character in Base64 string.")
                    ELSE Bytes(DecodeTail(st))

(***************************************************************************)
(* Value shapes: what a C++ type reduces to.  A record is a type declared  *)
(* with MY_SERIALIZE; its fields are shapes in declaration order.          *)
(***************************************************************************)
Arith(t) == [k |-> "arith", t |-> t]
String == [k |-> "string"]
Pair(a, b) == [k |-> "pair", a |-> a, b |-> b]
Vector(e) == [k |-> "vector", e |-> e]
List(e) == [k |-> "list", e |-> e]
Set(e) == [k |-> "set", e |-> e]
Map(a, b) == [k |-> "map", a |-> a, b |-> b]
Record(fields) == [k |-> "record", fields |-> fields]

SizeT == Arith("size_t")

\* sizeof(T) for the arithmetic types of the model (LP64)
sizeof(t) ==
  CASE t = "bool" -> 1
    [] t = "char" -> 1
    [] t = "int" -> 4
    [] t = "double" -> 8
    [] t = "size_t" -> 8

\* std::is_signed<T>
is_signed(t) == t \in {"char", "int"}

(***************************************************************************)
(* Values.  An arithmetic value is its object representation: sizeof(T)    *)
(* bytes, least significant first (the byte order of the host the model    *)
(* takes).  A string is its chars; a pair is <<first, second>>; a vector   *)
(* or list is the sequence of its elements; a set is the sequence of its   *)
(* elements in ascending order, a map the sequence of its <<key, value>>   *)
(* in ascending key order, without duplicates: the order the containers    *)
(* keep and iterate in.  A record is the tuple of its fields.              *)
(***************************************************************************)
\* the object representation of a size_t holding n (n < 2^31)
ToSizeT(n) ==
  << n % 256, (n \div 256) % 256, (n \div 65536) % 256, (n \div 16777216) % 256,
     0, 0, 0, 0 >>

\* sizes the model does not count: a resize to such a size cannot succeed
HugeSize == -1

\* the number a size_t object holds
FromSizeT(b) ==
  IF b[5] = 0 /\ b[6] = 0 /\ b[7] = 0 /\ b[8] = 0 /\ b[4] < 128
  THEN b[1] + 256 * b[2] + 65536 * b[3] + 16777216 * b[4]
  ELSE HugeSize

\* the byte compared first by operator< on an arithmetic type: the most
\* significant byte, with the sign bit flipped for a signed type
TopKey(t, b) == IF is_signed(t) THEN (b[sizeof(t)] + 128) % 256 ELSE b[sizeof(t)]

RECURSIVE BytesLess(_, _, _)
\* a < b for two unsigned numbers of j bytes each
BytesLess(a, b, j) ==
  IF j = 0 THEN FALSE
  ELSE IF a[j] # b[j] THEN a[j] < b[j]
  ELSE BytesLess(a, b, j - 1)

\* operator< of an integral arithmetic type
ArithLess(t, a, b) ==
  IF TopKey(t, a) # TopKey(t, b) THEN TopKey(t, a) < TopKey(t, b)
  ELSE BytesLess(a, b, sizeof(t) - 1)

RECURSIVE CharsLess(_, _, _)
\* operator< of std::string: chars compare as unsigned char
CharsLess(a, b, j) ==
  IF j > Len(b) THEN FALSE
  ELSE IF j > Len(a) THEN TRUE
  ELSE IF a[j] # b[j] THEN a[j] < b[j]
  ELSE CharsLess(a, b, j + 1)

RECURSIVE Less(_, _, _)
RECURSIVE LexLess(_, _, _, _)
\* std::lexicographical_compare over two sequences of shape e, from index j
LexLess(e, a, b, j) ==
  IF j > Len(b) THEN FALSE
  ELSE IF j > Len(a) THEN TRUE
  ELSE IF Less(e, a[j], b[j]) THEN TRUE
  ELSE IF Less(e, b[j], a[j]) THEN FALSE
  ELSE LexLess(e, a, b, j + 1)

\* operator<, the ordering std::set and std::map keep their keys in
Less(sh, a, b) ==
  CASE sh.k = "arith" -> ArithLess(sh.t, a, b)
    [] sh.k = "string" -> CharsLess(a, b, 1)
    [] sh.k = "pair" ->
         \/ Less(sh.a, a[1], b[1])
         \/ ~Less(sh.a, b[1], a[1]) /\ Less(sh.b, a[2], b[2])
    [] sh.k \in {"vector", "list", "set"} -> LexLess(sh.e, a, b, 1)
    [] sh.k = "map" -> LexLess(Pair(sh.a, sh.b), a, b, 1)

\* the elements of s before / from the place where key x belongs
Below(sh, s, x) == SelectSeq(s, LAMBDA y : Less(sh, y, x))
NotBelow(sh, s, x) == SelectSeq(s, LAMBDA y : ~Less(sh, y, x))

\* std::set<T>::insert(value): no effect when an equivalent element is there
insert(sh, data, value) ==
  LET lo == Below(sh.e, data, value)
      hi == NotBelow(sh.e, data, value)
  IN  IF hi # <<>> /\ ~Less(sh.e, value, hi[1]) THEN data
      ELSE lo \o <<value>> \o hi

\* std::map<T1, T2>: data[key] = value
assign(sh, data, key, value) ==
  LET lo == SelectSeq(data, LAMBDA kv : Less(sh.a, kv[1], key))
      hi == SelectSeq(data, LAMBDA kv : ~Less(sh.a, kv[1], key))
  IN  IF hi # <<>> /\ ~Less(sh.a, key, hi[1][1])
      THEN lo \o <<<<key, value>>>> \o Tail(hi)
      ELSE lo \o <<<<key, value>>>> \o hi

clear_Keep(data) == data

\* data.clear()
clear(data) == <<>>

RECURSIVE Default(_)
\* a value-initialized object: T(), and the elements resize() adds
Default(sh) ==
  CASE sh.k = "arith" -> [j \in 1..sizeof(sh.t) |-> 0]
    [] sh.k = "pair" -> <<Default(sh.a), Default(sh.b)>>
    [] sh.k = "record" -> [j \in DOMAIN sh.fields |-> Default(sh.fields[j])]
    [] OTHER -> <<>>

\* data.resize(len) of a string, vector or list whose elements have shape e
\* (a char is Arith("char"), held as its code)
resize(data, len, fresh) ==
  [j \in 1..len |-> IF j <= Len(data) THEN data[j] ELSE fresh]

RECURSIVE Concat(_)
Concat(ss) == IF ss = <<>> THEN <<>> ELSE Head(ss) \o Concat(Tail(ss))

(***************************************************************************)
(* Overload resolution.  Each codec has a process overload for arithmetic  *)
(* types, std::string, pair, vector, list, set and map, and none for any   *)
(* other type: a call process(x) with x of a record type is ill-formed.    *)
(***************************************************************************)
process_overload_Any(sh) == sh.k

\* the overload a call process(data) resolves to, "none" when no overload
\* is viable
process_overload(sh) ==
  IF sh.k \in {"arith", "string", "pair", "vector", "list", "set", "map"}
  THEN sh.k ELSE "none"

RECURSIVE Instantiates(_)
\* whether process(data) and the calls its body makes all resolve
Instantiates(sh) ==
  /\ process_overload(sh) # "none"
  /\ CASE sh.k \in {"pair", "map"} -> Instantiates(sh.a) /\ Instantiates(sh.b)
       [] sh.k \in {"vector", "list", "set"} -> Instantiates(sh.e)
       [] sh.k = "record" -> \A j \in DOMAIN sh.fields : Instantiates(sh.fields[j])
       [] OTHER -> TRUE

\* the arguments of the process calls an entry point makes: data itself
\* (the function templates), or data.f1 .. data.fn in the order SERIALIZE_n
\* expands them (the functions MY_SERIALIZE generates)
SERIALIZE_n_Reversed(n) == [j \in 1..n |-> n + 1 - j]

\* SERIALIZE_n(f1, ..., fn): process(data.f1); SERIALIZE_(n-1)(f2, ..., fn)
SERIALIZE_n(n) == [j \in 1..n |-> j]

\* whether the entry points for a value of shape sh compile
WellFormed(sh) ==
  IF sh.k = "record"
  THEN \A j \in DOMAIN sh.fields : Instantiates(sh.fields[j])
  ELSE Instantiates(sh)

(***************************************************************************)
(* BinarySerialize::BinarySerializer.  process returns the bytes it        *)
(* appends to the file.                                                    *)
(***************************************************************************)
RECURSIVE BinarySerializer_process(_, _)
BinarySerializer_process(sh, data) ==
  CASE sh.k = "arith" -> data
    [] sh.k = "string" ->
         BinarySerializer_process(SizeT, ToSizeT(Len(data))) \o data
    [] sh.k = "pair" ->
         BinarySerializer_process(sh.a, data[1]) \o
         BinarySerializer_process(sh.b, data[2])
    [] sh.k \in {"vector", "list", "set"} ->
         BinarySerializer_process(SizeT, ToSizeT(Len(data))) \o
         Concat([j \in DOMAIN data |-> BinarySerializer_process(sh.e, data[j])])
    [] sh.k = "map" ->
         BinarySerializer_process(SizeT, ToSizeT(Len(data))) \o
         Concat([j \in DOMAIN data |->
                   BinarySerializer_process(sh.a, data[j][1]) \o
                   BinarySerializer_process(sh.b, data[j][2])])

(***************************************************************************)
(* BinarySerialize::BinaryDeserializer.  The stream is (buf, pos, good);   *)
(* ub records that an indeterminate length was used.  process returns the  *)
(* value it leaves in data and the stream.                                 *)
(***************************************************************************)
OpenIn(bytes) == [buf |-> bytes, pos |-> 0, good |-> TRUE, ub |-> FALSE]

\* file.read(ptr, n) over an object holding old: a short read stores what
\* there is and fails the stream; a failed stream reads nothing
read(st, old, n) ==
  IF ~st.good THEN [data |-> old, st |-> st]
  ELSE LET avail == Len(st.buf) - st.pos
       IN  IF avail >= n
           THEN [data |-> SubSeq(st.buf, st.pos + 1, st.pos + n),
                 st   |-> [st EXCEPT !.pos = st.pos + n]]
           ELSE [data |-> SubSeq(st.buf, st.pos + 1, Len(st.buf)) \o
                          SubSeq(old, avail + 1, n),
                 st   |-> [st EXCEPT !.pos = Len(st.buf), !.good = FALSE]]

\* size_t len; process(len): len is indeterminate unless the read succeeds
read_len(st) ==
  LET r == read(st, ToSizeT(0), sizeof("size_t"))
  IN  IF r.st.good /\ FromSizeT(r.data) # HugeSize
      THEN [len |-> FromSizeT(r.data), st |-> r.st]
      ELSE [len |-> 0, st |-> [r.st EXCEPT !.ub = TRUE]]

RECURSIVE BinaryDeserializer_process(_, _, _)
RECURSIVE BD_elements(_, _, _, _)
RECURSIVE BD_set_loop(_, _, _, _)
RECURSIVE BD_map_loop(_, _, _, _)

\* for (T& value : data) process(value): the elements from index j on
BD_elements(e, data, j, st) ==
  IF j > Len(data) THEN [data |-> data, st |-> st]
  ELSE LET r == BinaryDeserializer_process(e, data[j], st)
       IN  BD_elements(e, [data EXCEPT ![j] = r.data], j + 1, r.st)

\* for (i = 0; i < len; i++) { T value; process(value); data.insert(value); }
BD_set_loop(sh, data, n, st) ==
  IF n = 0 THEN [data |-> data, st |-> st]
  ELSE LET r == BinaryDeserializer_process(sh.e, Default(sh.e), st)
       IN  BD_set_loop(sh, insert(sh, data, r.data), n - 1, r.st)

\* for (i = 0; i < len; i++) { process(key); process(value); data[key] = value; }
BD_map_loop(sh, data, n, st) ==
  IF n = 0 THEN [data |-> data, st |-> st]
  ELSE LET rk == BinaryDeserializer_process(sh.a, Default(sh.a), st)
           rv == BinaryDeserializer_process(sh.b, Default(sh.b), rk.st)
       IN  BD_map_loop(sh, assign(sh, data, rk.data, rv.data), n - 1, rv.st)

BinaryDeserializer_process(sh, data, st) ==
  CASE sh.k = "arith" -> read(st, data, sizeof(sh.t))
    [] sh.k = "string" ->
         LET l == read_len(st)
         IN  read(l.st, resize(data, l.len, 0), l.len)
    [] sh.k = "pair" ->
         LET r1 == BinaryDeserializer_process(sh.a, data[1], st)
             r2 == BinaryDeserializer_process(sh.b, data[2], r1.st)
         IN  [data |-> <<r1.data, r2.data>>, st |-> r2.st]
    [] sh.k \in {"vector", "list"} ->
         LET l == read_len(st)
         IN  BD_elements(sh.e, resize(clear(data), l.len, Default(sh.e)), 1, l.st)
    [] sh.k = "set" ->
         LET l == read_len(st)
         IN  BD_set_loop(sh, clear(data), l.len, l.st)
    [] sh.k = "map" ->
         LET l == read_len(st)
         IN  BD_map_loop(sh, clear(data), l.len, l.st)

\* serialize(data, file_name): the bytes the file holds when it returns
BinarySerialize_serialize(sh, data) ==
  IF sh.k = "record"
  THEN LET order == SERIALIZE_n(Len(sh.fields))
       IN  Concat([j \in DOMAIN order |->
                     BinarySerializer_process(sh.fields[order[j]], data[order[j]])])
  ELSE BinarySerializer_process(sh, data)

RECURSIVE BD_fields(_, _, _, _, _)
\* the process calls of SERIALIZE_n on a BinaryDeserializer, from call j on
BD_fields(sh, order, data, j, st) ==
  IF j > Len(order) THEN [data |-> data, st |-> st]
  ELSE LET f == order[j]
           r == BinaryDeserializer_process(sh.fields[f], data[f], st)
       IN  BD_fields(sh, order, [data EXCEPT ![f] = r.data], j + 1, r.st)

\* deserialize(data, file_name) over a file that opened and holds bytes
BinarySerialize_deserialize(sh, data, bytes) ==
  IF sh.k = "record"
  THEN BD_fields(sh, SERIALIZE_n(Len(sh.fields)), data, 1, OpenIn(bytes))
  ELSE BinaryDeserializer_process(sh, data, OpenIn(bytes))

(***************************************************************************)
(* The values the entry points are applied to.                             *)
(***************************************************************************)
\* longest string, and most elements of a container, at the top level; what
\* is nested in a container is one shorter per level
MaxLen == 2

\* the chars strings are made of: 'a' and the null character
StrChars == {97, 0}

\* the values arithmetic objects take:
\*   bool    false, true
\*   char    'a', 'z'
\*   int     5, -1
\*   double  1.2, 3.14 (IEEE 754 binary64)
\*   size_t  3, 2^53 + 1, 2^64 - 1
ArithValues(t) ==
  CASE t = "bool" -> {<<0>>, <<1>>}
    [] t = "char" -> {<<97>>, <<122>>}
    [] t = "int" -> {<<5, 0, 0, 0>>, <<255, 255, 255, 255>>}
    [] t = "double" -> {<<51, 51, 51, 51, 51, 51, 243, 63>>,
                        <<31, 133, 235, 81, 184, 30, 9, 64>>}
    [] t = "size_t" -> {<<3, 0, 0, 0, 0, 0, 0, 0>>, <<1, 0, 0, 0, 0, 0, 32, 0>>,
                        <<255, 255, 255, 255, 255, 255, 255, 255>>}

RECURSIVE SortedSeq(_, _)
\* the elements of the finite set S in ascending order of Less
SortedSeq(e, S) ==
  IF S = {} THEN <<>>
  ELSE LET m == CHOOSE x \in S : \A y \in S \ {x} : Less(e, x, y)
       IN  <<m>> \o SortedSeq(e, S \ {m})

\* the subsets of S with at most n elements
SubsetsUpTo(S, n) == {X \in SUBSET S : Cardinality(X) <= n}

RECURSIVE ValuesOf(_, _)
\* the values of shape sh whose strings and containers hold at most n
\* elements, and one fewer per level of nesting
ValuesOf(sh, n) ==
  CASE sh.k = "arith" -> ArithValues(sh.t)
    [] sh.k = "string" -> SeqsUpTo(StrChars, n)
    [] sh.k = "pair" -> ValuesOf(sh.a, n) \X ValuesOf(sh.b, n)
    [] sh.k \in {"vector", "list"} ->
         IF n = 0 THEN {<<>>} ELSE SeqsUpTo(ValuesOf(sh.e, n - 1), n)
    [] sh.k = "set" ->
         IF n = 0 THEN {<<>>}
         ELSE {SortedSeq(sh.e, X) : X \in SubsetsUpTo(ValuesOf(sh.e, n - 1), n)}
    [] sh.k = "map" ->
         IF n = 0 THEN {<<>>}
         ELSE UNION {
                LET ks == SortedSeq(sh.a, K)
                IN  {[j \in DOMAIN ks |-> <<ks[j], f[ks[j]]>>] :
                       f \in [K -> ValuesOf(sh.b, n - 1)]} :
                K \in SubsetsUpTo(ValuesOf(sh.a, n - 1), n) }
    [] sh.k = "record" ->
         IF Len(sh.fields) = 1
         THEN {<<x>> : x \in ValuesOf(sh.fields[1], n)}
         ELSE IF Len(sh.fields) = 2
         THEN ValuesOf(sh.fields[1], n) \X ValuesOf(sh.fields[2], n)
         ELSE ValuesOf(sh.fields[1], n) \X ValuesOf(sh.fields[2], n)
                \X ValuesOf(sh.fields[3], n)

RECURSIVE Filled(_)
\* a value none of ValuesOf holds a part of: arithmetic objects of bytes
\* 0xAA, the string "x", containers of one such element
Filled(sh) ==
  CASE sh.k = "arith" -> [j \in 1..sizeof(sh.t) |-> 170]
    [] sh.k = "string" -> <<120>>
    [] sh.k = "pair" -> <<Filled(sh.a), Filled(sh.b)>>
    [] sh.k \in {"vector", "list", "set"} -> <<Filled(sh.e)>>
    [] sh.k = "map" -> <<<<Filled(sh.a), Filled(sh.b)>>>>
    [] sh.k = "record" -> [j \in DOMAIN sh.fields |-> Filled(sh.fields[j])]

\* what a destination holds before deserialize is called on it
PriorValues(sh) == {Default(sh), Filled(sh)}

\* the declared types of the model
\*   struct UserDefinedType { int idx; std::string name; std::vector<int> data; };
\*   MY_SERIALIZE(UserDefinedType, 3, idx, name, data)
UserDefinedType == Record(<<Arith("int"), String, Vector(Arith("int"))>>)
\*   struct Flags { bool on; size_t count; };  MY_SERIALIZE(Flags, 2, on, count)
Flags == Record(<<Arith("bool"), SizeT>>)
\*   struct Inner { int x; };  MY_SERIALIZE(Inner, 1, x)
Inner == Record(<<Arith("int")>>)
\*   struct Outer { Inner in; };  MY_SERIALIZE(Outer, 1, in)
Outer == Record(<<Inner>>)
\*   struct Book { std::map<std::string, Inner> m; };  MY_SERIALIZE(Book, 1, m)
Book == Record(<<Map(String, Inner)>>)

Shapes ==
  << Arith("bool"), Arith("char"), Arith("int"), SizeT, Arith("double"),
     String,
     Pair(String, Arith("int")),
     Vector(Arith("double")),
     Vector(List(Arith("int"))),
     Set(Pair(String, Arith("int"))),
     Map(String, Arith("char")),
     Set(Arith("bool")),
     UserDefinedType, Flags, Outer, Book, Vector(Inner) >>

(***************************************************************************)
(* The text of a "val" attribute.  XMLElement::SetAttribute(name, value)   *)
(* stores an integer as its decimal numeral and a bool as "true" or        *)
(* "false"; a char is promoted to int.  The numerals are computed on the   *)
(* object representation, a byte at a time.                                *)
(***************************************************************************)
IsZero(b) == \A j \in DOMAIN b : b[j] = 0

RECURSIVE DivMod10(_, _, _)
\* b \div 10 and b % 10 for the number b: long division from byte j down,
\* r the remainder carried in
DivMod10(b, j, r) ==
  IF j = 0 THEN [q |-> b, r |-> r]
  ELSE LET cur == r * 256 + b[j]
       IN  DivMod10([b EXCEPT ![j] = cur \div 10], j - 1, cur % 10)

RECURSIVE Digits(_)
\* the decimal digits of the number b, none for 0
Digits(b) ==
  IF IsZero(b) THEN <<>>
  ELSE LET d == DivMod10(b, Len(b), 0)
       IN  Append(Digits(d.q), 48 + d.r)

\* the decimal numeral of the number b
Numeral(b) == IF IsZero(b) THEN <<48>> ELSE Digits(b)

RECURSIVE AddSmall(_, _, _)
\* b + c for a number b and a small c, from byte j up; the carry out of the
\* top byte is dropped
AddSmall(b, j, c) ==
  IF j > Len(b) \/ c = 0 THEN b
  ELSE LET cur == b[j] + c
       IN  AddSmall([b EXCEPT ![j] = cur % 256], j + 1, cur \div 256)

\* the two's complement of b: the magnitude of a negative value
Negate(b) == AddSmall([j \in DOMAIN b |-> 255 - b[j]], 1, 1)

\* whether the object b of type t holds a negative value
IsNegative(t, b) == is_signed(t) /\ b[sizeof(t)] >= 128

\* "true" and "false"
TrueText == <<116, 114, 117, 101>>
FalseText == <<102, 97, 108, 115, 101>>

AttributeText_BoolAsInt(t, b) == Numeral(b)

\* the text SetAttribute("val", data) stores for an arithmetic data
AttributeText(t, b) ==
  IF t = "bool" THEN (IF b[1] # 0 THEN TrueText ELSE FalseText)
  ELSE IF IsNegative(t, b) THEN <<45>> \o Numeral(Negate(b))
  ELSE Numeral(b)

\* data.c_str(): the chars before the first null character
c_str(data) ==
  IF \E j \in DOMAIN data : data[j] = 0
  THEN SubSeq(data, 1, (CHOOSE j \in DOMAIN data :
                          data[j] = 0 /\ \A i \in 1..(j - 1) : data[i] # 0) - 1)
  ELSE data

(***************************************************************************)
(* Reading a "val" attribute: std::istringstream >> double, then           *)
(* static_cast<T>.  A double that holds an integer is its sign and its     *)
(* magnitude in DoubleBytes bytes, of at most 53 significant bits.         *)
(***************************************************************************)
\* bytes of a magnitude: every numeral of 20 digits fits
DoubleBytes == 9

\* the significand of an IEEE 754 binary64, in bits
DoubleMantissa == 53

IsDigit(c) == c \in 48..57

RECURSIVE MulAdd10(_, _, _)
\* b * 10 + c, from byte j up
MulAdd10(b, j, c) ==
  IF j > Len(b) THEN b
  ELSE LET cur == b[j] * 10 + c
       IN  MulAdd10([b EXCEPT ![j] = cur % 256], j + 1, cur \div 256)

RECURSIVE DigitsValue(_, _, _)
\* the number the digits of text from index j on denote, after acc
DigitsValue(text, j, acc) ==
  IF j > Len(text) \/ ~IsDigit(text[j]) THEN acc
  ELSE DigitsValue(text, j + 1, MulAdd10(acc, 1, text[j] - 48))

RECURSIVE BitLen8(_)
BitLen8(x) == IF x = 0 THEN 0 ELSE 1 + BitLen8(x \div 2)

\* the number of significant bits of the number b
BitLength(b) ==
  IF IsZero(b) THEN 0
  ELSE LET h == CHOOSE j \in DOMAIN b : b[j] # 0 /\ \A i \in (j + 1)..Len(b) : b[i] = 0
       IN  8 * (h - 1) + BitLen8(b[h])

RECURSIVE Pow2(_)
Pow2(n) == IF n = 0 THEN 1 ELSE 2 * Pow2(n - 1)

RoundToDouble_Exact(b) == b

\* the nearest double to the number b, ties to even: the low bits beyond
\* the 53-bit significand are rounded away (fewer than 24 of them, so they
\* lie in the three low bytes)
RoundToDouble(b) ==
  LET s == BitLength(b) - DoubleMantissa
  IN  IF s <= 0 THEN b
      ELSE LET low  == b[1] + 256 * b[2] + 65536 * b[3]
               q    == low \div Pow2(s)
               rem  == low % Pow2(s)
               half == Pow2(s - 1)
               up   == IF rem > half \/ (rem = half /\ q % 2 = 1) THEN 1 ELSE 0
               kept == q * Pow2(s)
               base == [b EXCEPT ![1] = kept % 256,
                                 ![2] = (kept \div 256) % 256,
                                 ![3] = (kept \div 65536) % 256]
           IN  IF up = 0 THEN base
               ELSE LET inc  == Pow2(s)
                        b1   == AddSmall(base, 1, inc % 256)
                        b2   == AddSmall(b1, 2, (inc \div 256) % 256)
                    IN  AddSmall(b2, 3, (inc \div 65536) % 256)

\* iss >> tmp: an optional sign and digits give the nearest double; with no
\* digit the extraction fails and stores 0 (a fraction or an exponent is in
\* no text of the model)
ParseDouble(text) ==
  LET signed == text # <<>> /\ text[1] \in {43, 45}
      start  == IF signed THEN 2 ELSE 1
      zero   == [j \in 1..DoubleBytes |-> 0]
  IN  IF start > Len(text) \/ ~IsDigit(text[start])
      THEN [neg |-> FALSE, mag |-> zero]
      ELSE [neg |-> signed /\ text[1] = 45,
            mag |-> RoundToDouble(DigitsValue(text, start, zero))]

\* whether the integer-valued double d is a value of the integral type t
Representable(t, d) ==
  LET m    == sizeof(t)
      high == \A j \in (m + 1)..DoubleBytes : d.mag[j] = 0
      low  == SubSeq(d.mag, 1, m)
  IN  IF IsZero(d.mag) THEN TRUE
      ELSE IF is_signed(t)
      THEN IF d.neg
           THEN high /\ (low[m] < 128 \/ (low[m] = 128 /\ IsZero(SubSeq(low, 1, m - 1))))
           ELSE high /\ low[m] < 128
      ELSE ~d.neg /\ high

\* what a conversion whose value T cannot represent may leave: the
\* conversion is undefined; builds give 0, the "integer indefinite" pattern
\* 0x80..0 or a saturated value
UndefinedCasts == {"zero", "indefinite", "saturated"}

UndefinedCast(t, d, u) ==
  LET m == sizeof(t)
  IN  CASE u = "zero" -> [j \in 1..m |-> 0]
        [] u = "indefinite" -> [j \in 1..m |-> IF j = m THEN 128 ELSE 0]
        [] u = "saturated" ->
             IF is_signed(t)
             THEN (IF d.neg THEN [j \in 1..m |-> IF j = m THEN 128 ELSE 0]
                   ELSE [j \in 1..m |-> IF j = m THEN 127 ELSE 255])
             ELSE (IF d.neg THEN [j \in 1..m |-> 0] ELSE [j \in 1..m |-> 255])

\* static_cast<T>(tmp)
static_cast(t, d, u) ==
  IF t = "bool" THEN (IF IsZero(d.mag) THEN <<0>> ELSE <<1>>)
  ELSE IF Representable(t, d)
  THEN (IF d.neg THEN Negate(SubSeq(d.mag, 1, sizeof(t)))
        ELSE SubSeq(d.mag, 1, sizeof(t)))
  ELSE UndefinedCast(t, d, u)

(***************************************************************************)
(* The document tree (tinyxml2's XMLDocument, XMLElement).  An element is  *)
(* its name, its "val" attribute if it has one, and its child elements in  *)
(* document order.  A null XMLElement* is Null.                            *)
(***************************************************************************)
NewElement(name) == [name |-> name, has |-> FALSE, val |-> <<>>, kids |-> <<>>]
Null == NewElement("#null")

\* pos->SetAttribute("val", text)
SetAttribute(pos, text) == [pos EXCEPT !.has = TRUE, !.val = text]

\* pos->InsertEndChild(ele)
InsertEndChild(pos, ele) == [pos EXCEPT !.kids = Append(pos.kids, ele)]

\* the index of the first of kids, after index j, named name; 0 when none
NextNamed(kids, j, name) ==
  IF \E i \in (j + 1)..Len(kids) : kids[i].name = name
  THEN CHOOSE i \in (j + 1)..Len(kids) :
         kids[i].name = name /\ \A h \in (j + 1)..(i - 1) : kids[h].name # name
  ELSE 0

\* pos->FirstChildElement(name), for pos not null
FirstChildElement(pos, name) ==
  LET i == NextNamed(pos.kids, 0, name)
  IN  IF i = 0 THEN Null ELSE pos.kids[i]

\* the elements FirstChildElement(name), NextSiblingElement(name), ... visit
ChildrenNamed(pos, name) == SelectSeq(pos.kids, LAMBDA e : e.name = name)

(***************************************************************************)
(* XMLSerialize::XMLSerializer: the protected process(data, pos), which    *)
(* returns pos as it leaves it.                                            *)
(***************************************************************************)
\* the element name of a vector, list or set
ContainerName(sh) == sh.k

RECURSIVE XMLSerializer_process_at(_, _, _)
RECURSIVE XS_items(_, _, _, _)

\* for (value : data) { item_ele = NewElement("item"); ...; process(value, item_ele); }
XS_items(e, data, j, ele) ==
  IF j > Len(data) THEN ele
  ELSE XS_items(e, data, j + 1,
                InsertEndChild(ele, XMLSerializer_process_at(e, data[j], NewElement("item"))))

XMLSerializer_process_at(sh, data, pos) ==
  CASE sh.k = "arith" -> SetAttribute(pos, AttributeText(sh.t, data))
    [] sh.k = "string" -> SetAttribute(pos, c_str(data))
    [] sh.k = "pair" ->
         LET first_ele  == XMLSerializer_process_at(sh.a, data[1], NewElement("first"))
             second_ele == XMLSerializer_process_at(sh.b, data[2], NewElement("second"))
         IN  InsertEndChild(pos,
               InsertEndChild(InsertEndChild(NewElement("pair"), first_ele), second_ele))
    [] sh.k \in {"vector", "list", "set"} ->
         LET len_ele == XMLSerializer_process_at(SizeT, ToSizeT(Len(data)),
                                                 NewElement("length"))
         IN  InsertEndChild(pos,
               XS_items(sh.e, data, 1,
                        InsertEndChild(NewElement(ContainerName(sh)), len_ele)))
    [] sh.k = "map" ->
         LET len_ele == XMLSerializer_process_at(SizeT, ToSizeT(Len(data)),
                                                 NewElement("length"))
             item(kv) ==
               InsertEndChild(
                 InsertEndChild(NewElement("item"),
                   XMLSerializer_process_at(sh.a, kv[1], NewElement("key"))),
                 XMLSerializer_process_at(sh.b, kv[2], NewElement("value")))
             items == [j \in DOMAIN data |-> item(data[j])]
         IN  InsertEndChild(pos,
               [name |-> "map", has |-> FALSE, val |-> <<>>,
                kids |-> <<len_ele>> \o items])

(***************************************************************************)
(* XMLSerialize::XMLDeserializer: the protected process(data, pos).  It    *)
(* returns the value it leaves in data, and ub when it dereferenced a null *)
(* element or built a string from a null attribute.  u is what an          *)
(* undefined conversion gives in this build.                               *)
(***************************************************************************)
Undefined(data) == [data |-> data, ub |-> TRUE]
Defined(data) == [data |-> data, ub |-> FALSE]

IsNull(pos) == pos.name = "#null"

RECURSIVE XMLDeserializer_process_at(_, _, _, _)
RECURSIVE XD_items(_, _, _, _, _)
RECURSIVE XD_set_items(_, _, _, _, _)
RECURSIVE XD_map_items(_, _, _, _, _)

\* while (item_ele != nullptr) { T value; process(value, item_ele);
\*   data.push_back(value); item_ele = item_ele->NextSiblingElement("item"); }
XD_items(e, items, j, data, u) ==
  IF j > Len(items) THEN Defined(data)
  ELSE LET r == XMLDeserializer_process_at(e, Default(e), items[j], u)
       IN  IF r.ub THEN Undefined(data)
           ELSE XD_items(e, items, j + 1, Append(data, r.data), u)

XD_set_items(sh, items, j, data, u) ==
  IF j > Len(items) THEN Defined(data)
  ELSE LET r == XMLDeserializer_process_at(sh.e, Default(sh.e), items[j], u)
       IN  IF r.ub THEN Undefined(data)
           ELSE XD_set_items(sh, items, j + 1, insert(sh, data, r.data), u)

XD_map_items(sh, items, j, data, u) ==
  IF j > Len(items) THEN Defined(data)
  ELSE LET rk == XMLDeserializer_process_at(sh.a, Default(sh.a),
                                            FirstChildElement(items[j], "key"), u)
           rv == XMLDeserializer_process_at(sh.b, Default(sh.b),
                                            FirstChildElement(items[j], "value"), u)
       IN  IF rk.ub \/ rv.ub THEN Undefined(data)
           ELSE XD_map_items(sh, items, j + 1, assign(sh, data, rk.data, rv.data), u)

XMLDeserializer_process_at(sh, data, pos, u) ==
  IF IsNull(pos) THEN Undefined(data)
  ELSE
  CASE sh.k = "arith" ->
         IF ~pos.has THEN Undefined(data)
         ELSE Defined(static_cast(sh.t, ParseDouble(pos.val), u))
    [] sh.k = "string" ->
         IF ~pos.has THEN Undefined(data) ELSE Defined(pos.val)
    [] sh.k = "pair" ->
         LET pair_ele == FirstChildElement(pos, "pair")
         IN  IF IsNull(pair_ele) THEN Undefined(data)
             ELSE LET r1 == XMLDeserializer_process_at(
                              sh.a, data[1], FirstChildElement(pair_ele, "first"), u)
                      r2 == XMLDeserializer_process_at(
                              sh.b, data[2], FirstChildElement(pair_ele, "second"), u)
                  IN  IF r1.ub THEN Undefined(data)
                      ELSE IF r2.ub THEN Undefined(<<r1.data, data[2]>>)
                      ELSE Defined(<<r1.data, r2.data>>)
    [] sh.k \in {"vector", "list", "set", "map"} ->
         LET ele == FirstChildElement(pos, ContainerName(sh))
         IN  IF IsNull(ele) THEN Undefined(data)
             ELSE LET len == XMLDeserializer_process_at(
                               SizeT, ToSizeT(0), FirstChildElement(ele, "length"), u)
                      items == ChildrenNamed(ele, "item")
                  IN  IF len.ub THEN Undefined(data)
                      ELSE CASE sh.k = "set" -> XD_set_items(sh, items, 1, clear(data), u)
                             [] sh.k = "map" -> XD_map_items(sh, items, 1, clear(data), u)
                             [] OTHER -> XD_items(sh.e, items, 1, clear(data), u)

(***************************************************************************)
(* The text of a document: what XMLDocument::SaveFile and XMLPrinter write *)
(* and XMLDocument::LoadFile and Parse read back (tinyxml2 is outside the  *)
(* repository; the layout is XML without white space between elements,    *)
(* and no character of the model needs an entity).                         *)
(***************************************************************************)
ElementNames == {"serialization", "field", "pair", "first", "second", "vector", "list", "set", "map", "length", "item", "key", "value"}

NameText(name) ==
  CASE
       name = "serialization" -> <<115, 101, 114, 105, 97, 108, 105, 122, 97, 116, 105, 111, 110>>
    [] name = "field" -> <<102, 105, 101, 108, 100>>
    [] name = "pair" -> <<112, 97, 105, 114>>
    [] name = "first" -> <<102, 105, 114, 115, 116>>
    [] name = "second" -> <<115, 101, 99, 111, 110, 100>>
    [] name = "vector" -> <<118, 101, 99, 116, 111, 114>>
    [] name = "list" -> <<108, 105, 115, 116>>
    [] name = "set" -> <<115, 101, 116>>
    [] name = "map" -> <<109, 97, 112>>
    [] name = "length" -> <<108, 101, 110, 103, 116, 104>>
    [] name = "item" -> <<105, 116, 101, 109>>
    [] name = "key" -> <<107, 101, 121>>
    [] name = "value" -> <<118, 97, 108, 117, 101>>

\* "<", ">", "/", the space, the quote, and the text of  val="
LT == 60
GT == 62
Slash == 47
Space == 32
Quote == 34
ValEq == <<32, 118, 97, 108, 61, 34>>

RECURSIVE PrintElement(_)
PrintElement(e) ==
  LET attr == IF e.has THEN ValEq \o e.val \o <<Quote>> ELSE <<>>
  IN  IF e.kids = <<>>
      THEN <<LT>> \o NameText(e.name) \o attr \o <<Slash, GT>>
      ELSE <<LT>> \o NameText(e.name) \o attr \o <<GT>>
           \o Concat([j \in DOMAIN e.kids |-> PrintElement(e.kids[j])])
           \o <<LT, Slash>> \o NameText(e.name) \o <<GT>>

\* the text of a document whose top-level elements are doc
PrintDocument(doc) == Concat([j \in DOMAIN doc |-> PrintElement(doc[j])])

\* whether pat stands in t at index i
Match(t, i, pat) ==
  i + Len(pat) - 1 <= Len(t) /\ SubSeq(t, i, i + Len(pat) - 1) = pat

\* the first index from i on whose char is in stops, or Len(t) + 1
Upto(t, i, stops) ==
  IF \E j \in i..Len(t) : t[j] \in stops
  THEN CHOOSE j \in i..Len(t) : t[j] \in stops /\ \A h \in i..(j - 1) : t[h] \notin stops
  ELSE Len(t) + 1

\* the element name a text spells; "#other" for a name the codec never uses
TextName(chars) ==
  IF \E n \in ElementNames : NameText(n) = chars
  THEN CHOOSE n \in ElementNames : NameText(n) = chars
  ELSE "#other"

ParseFailed == [ok |-> FALSE, kids |-> <<>>, i |-> 0]

RECURSIVE ParseElements(_, _)
RECURSIVE ParseElement(_, _)

\* one element at index i: the element and the index after it
ParseElement(t, i) ==
  IF ~(i + 1 <= Len(t) /\ t[i] = LT /\ t[i + 1] \notin {Slash, GT, Space, LT})
  THEN ParseFailed
  ELSE LET e     == Upto(t, i + 1, {Space, Slash, GT})
           name  == TextName(SubSeq(t, i + 1, e - 1))
           has   == Match(t, e, ValEq)
           q     == IF has THEN Upto(t, e + Len(ValEq), {Quote}) ELSE e - 1
           val   == IF has THEN SubSeq(t, e + Len(ValEq), q - 1) ELSE <<>>
           after == q + 1
           ele   == [name |-> name, has |-> has, val |-> val, kids |-> <<>>]
       IN  IF has /\ q > Len(t) THEN ParseFailed
           ELSE IF Match(t, after, <<Slash, GT>>)
           THEN [ok |-> TRUE, kids |-> <<ele>>, i |-> after + 2]
           ELSE IF Match(t, after, <<GT>>)
           THEN LET inner == ParseElements(t, after + 1)
                    close == <<LT, Slash>> \o SubSeq(t, i + 1, e - 1) \o <<GT>>
                IN  IF inner.ok /\ Match(t, inner.i, close)
                    THEN [ok |-> TRUE, kids |-> <<[ele EXCEPT !.kids = inner.kids]>>,
                          i |-> inner.i + Len(close)]
                    ELSE ParseFailed
           ELSE ParseFailed

\* the elements from index i up to a closing tag or the end of the text
ParseElements(t, i) ==
  IF i > Len(t) \/ Match(t, i, <<LT, Slash>>)
  THEN [ok |-> TRUE, kids |-> <<>>, i |-> i]
  ELSE LET one == ParseElement(t, i)
       IN  IF ~one.ok THEN ParseFailed
           ELSE LET rest == ParseElements(t, one.i)
                IN  IF ~rest.ok THEN ParseFailed
                    ELSE [ok |-> TRUE, kids |-> one.kids \o rest.kids, i |-> rest.i]

\* XMLDocument::Parse(text): the top-level elements, or an error and an
\* empty document (text with no element is the error XML_ERROR_EMPTY_DOCUMENT)
ParseDocument(text) ==
  LET r == ParseElements(text, 1)
  IN  IF r.ok /\ r.i = Len(text) + 1 /\ r.kids # <<>>
      THEN [error |-> FALSE, doc |-> r.kids]
      ELSE [error |-> TRUE, doc |-> <<>>]

(***************************************************************************)
(* XMLSerializer and XMLDeserializer objects, and the files they use.      *)
(***************************************************************************)
\* the target file: whether it exists, and its bytes
NoFile == [exists |-> FALSE, bytes |-> <<>>, writable |-> TRUE]

\* a target that cannot be opened: a path in a directory that does not exist
NoDirectory == [exists |-> FALSE, bytes |-> <<>>, writable |-> FALSE]

\* a file opened for writing with truncation, written and closed
WriteFile(bytes) == [exists |-> TRUE, bytes |-> bytes, writable |-> TRUE]

\* open(file_name, binary | out | trunc), std::ofstream(file_name, binary |
\* trunc) and SaveFile's fopen(file_name, "w"): the file is created or emptied;
\* where it cannot be opened nothing happens, and nothing reports it
open_trunc(f) ==
  IF f.writable THEN [f EXCEPT !.exists = TRUE, !.bytes = <<>>] ELSE f

\* the writes made on the stream from its start; none on a stream not open
write(f, bytes) ==
  IF f.exists /\ f.writable
  THEN [f EXCEPT !.bytes = bytes \o SubSeq(f.bytes, Len(bytes) + 1, Len(f.bytes))]
  ELSE f

\* the target after a serializer opened it, wrote bytes and closed it
Written(f, bytes) == write(open_trunc(f), bytes)

NoSerializer == [alive |-> FALSE, mode |-> "none", root_ele |-> Null]
NoDeserializer ==
  [alive |-> FALSE, mode |-> "none", root_ele |-> Null, cur_ele |-> 0, calls |-> 0]

\* XMLSerializer(file_name, mode): a document holding <serialization/>
XMLSerializer_ctor(mode) ==
  [alive |-> TRUE, mode |-> mode, root_ele |-> NewElement("serialization")]

\* a process(data) that puts the new <field> before the earlier ones
XMLSerializer_process_First(xs, sh, data) ==
  [xs EXCEPT !.root_ele.kids =
     <<XMLSerializer_process_at(sh, data, NewElement("field"))>> \o @]

\* the public process(data): a new <field> under the root, filled from data
XMLSerializer_process(xs, sh, data) ==
  [xs EXCEPT !.root_ele =
     InsertEndChild(xs.root_ele,
                    XMLSerializer_process_at(sh, data, NewElement("field")))]

\* XMLConverter::operator()(const XMLDocument&): the printed text with the
\* terminating null CStrSize() counts, Base64-encoded
XMLConverter_encode(doc) == base64_encode(PrintDocument(doc) \o <<0>>)

\* ~XMLSerializer(): the bytes the target file holds afterwards
XMLSerializer_dtor(xs) ==
  IF xs.mode = "text"
  THEN PrintDocument(<<xs.root_ele>>)
  ELSE XMLConverter_encode(<<xs.root_ele>>)

\* a failed constructor
Thrown(what) == [status |-> "MyErr", what |-> what, xd |-> NoDeserializer]

RootMissing_Never(root_ele) == FALSE
\* if (!root_ele)
RootMissing(root_ele) == IsNull(root_ele)

FieldMissing_Never(cur_ele) == FALSE
\* if (!cur_ele), in the constructor
FieldMissing(cur_ele) == cur_ele = 0

\* lines 598-607: the root element, then its first <field>; cur_ele is the
\* index of the current <field> among the root's children, 0 when null
XMLDeserializer_locate(mode, doc) ==
  LET i        == NextNamed(doc, 0, "serialization")
      root_ele == IF i = 0 THEN Null ELSE doc[i]
  IN  IF RootMissing(root_ele)
      THEN Thrown("Failed to found root element <serialization>.")
      ELSE LET cur_ele == NextNamed(root_ele.kids, 0, "field")
           IN  IF FieldMissing(cur_ele)
               THEN Thrown("Element <field> not found in <serialization>.")
               ELSE [status |-> "ok", what |-> "",
                     xd |-> [alive |-> TRUE, mode |-> mode, root_ele |-> root_ele,
                             cur_ele |-> cur_ele, calls |-> 0]]

\* XMLDeserializer(file_name, mode) on the target file f
XMLDeserializer_ctor(f, mode) ==
  IF mode = "text"
  THEN IF ~f.exists THEN Thrown("Failed to open target xml file.")
       ELSE LET loaded == ParseDocument(c_str(f.bytes))
            IN  IF loaded.error THEN Thrown("Failed to open target xml file.")
                ELSE XMLDeserializer_locate(mode, loaded.doc)
  ELSE IF ~f.exists THEN Thrown("Failed to open target xml file (binary mode).")
       ELSE LET decoded == base64_decode(f.bytes)
            IN  IF decoded.status = "MyErr" THEN Thrown(decoded.what)
                ELSE XMLDeserializer_locate(mode, ParseDocument(c_str(decoded.bytes)).doc)

FieldNotFound_Never(cur_ele) == FALSE
\* if (!cur_ele), in process
FieldNotFound(cur_ele) == cur_ele = 0

NextField_Stay(xd) == xd.cur_ele
\* cur_ele->NextSiblingElement("field")
NextField(xd) == NextNamed(xd.root_ele.kids, xd.cur_ele, "field")

\* a process(data) that always decodes the first <field> of the root
XMLDeserializer_process_Rewind(xd, sh, data, u) ==
  IF FieldNotFound(xd.cur_ele)
  THEN [xd |-> [xd EXCEPT !.calls = xd.calls + 1], data |-> data, status |-> "MyErr"]
  ELSE LET first == NextNamed(xd.root_ele.kids, 0, "field")
           r == XMLDeserializer_process_at(sh, data, xd.root_ele.kids[first], u)
       IN  [xd |-> [xd EXCEPT !.cur_ele = NextField(xd), !.calls = xd.calls + 1],
            data |-> r.data, status |-> IF r.ub THEN "ub" ELSE "ok"]

\* the public process(data) of an XMLDeserializer: the object, the value
\* left in data, and how the call ended
XMLDeserializer_process(xd, sh, data, u) ==
  IF FieldNotFound(xd.cur_ele)
  THEN [xd |-> [xd EXCEPT !.calls = xd.calls + 1], data |-> data, status |-> "MyErr"]
  ELSE LET r == XMLDeserializer_process_at(sh, data, xd.root_ele.kids[xd.cur_ele], u)
       IN  IF r.ub
           THEN [xd |-> [xd EXCEPT !.calls = xd.calls + 1], data |-> r.data,
                 status |-> "ub"]
           ELSE [xd |-> [xd EXCEPT !.cur_ele = NextField(xd), !.calls = xd.calls + 1],
                 data |-> r.data, status |-> "ok"]

(***************************************************************************)
(* The XML entry points: serialize_xml, serialize_xml_base64 and their     *)
(* deserialize counterparts, as templates and as MY_SERIALIZE generates    *)
(* them.  mode is "text" or "binary".                                      *)
(***************************************************************************)
RECURSIVE XS_fields(_, _, _, _, _)
\* the process calls of SERIALIZE_n on an XMLSerializer, from call j on
XS_fields(sh, order, data, j, xs) ==
  IF j > Len(order) THEN xs
  ELSE XS_fields(sh, order, data, j + 1,
                 XMLSerializer_process(xs, sh.fields[order[j]], data[order[j]]))

\* the bytes the file holds when serialize_xml / serialize_xml_base64 returns
XMLSerialize_serialize(sh, data, mode) ==
  LET xs == XMLSerializer_ctor(mode)
  IN  IF sh.k = "record"
      THEN XMLSerializer_dtor(
             XS_fields(sh, SERIALIZE_n(Len(sh.fields)), data, 1, xs))
      ELSE XMLSerializer_dtor(XMLSerializer_process(xs, sh, data))

RECURSIVE XD_fields(_, _, _, _, _, _)
\* the process calls of SERIALIZE_n on an XMLDeserializer, from call j on;
\* a call that throws ends them
XD_fields(sh, order, data, j, xd, u) ==
  IF j > Len(order) THEN [data |-> data, status |-> "ok"]
  ELSE LET f == order[j]
           r == XMLDeserializer_process(xd, sh.fields[f], data[f], u)
       IN  IF r.status # "ok"
           THEN [data |-> [data EXCEPT ![f] = r.data], status |-> r.status]
           ELSE XD_fields(sh, order, [data EXCEPT ![f] = r.data], j + 1, r.xd, u)

\* a deserialize that resets the destination before it constructs the
\* deserializer
XMLSerialize_deserialize_body_Reset(sh, data, c, u) ==
  IF c.status = "MyErr" THEN [data |-> Default(sh), status |-> "MyErr"]
  ELSE IF sh.k = "record"
  THEN XD_fields(sh, SERIALIZE_n(Len(sh.fields)), data, 1, c.xd, u)
  ELSE LET r == XMLDeserializer_process(c.xd, sh, data, u)
       IN  [data |-> r.data, status |-> r.status]

\* the process calls deserialize_xml / deserialize_xml_base64 make once the
\* constructor gave c
XMLSerialize_deserialize_body(sh, data, c, u) ==
  IF c.status = "MyErr" THEN [data |-> data, status |-> "MyErr"]
  ELSE IF sh.k = "record"
  THEN XD_fields(sh, SERIALIZE_n(Len(sh.fields)), data, 1, c.xd, u)
  ELSE LET r == XMLDeserializer_process(c.xd, sh, data, u)
       IN  [data |-> r.data, status |-> r.status]

\* deserialize_xml / deserialize_xml_base64 on the target file f
XMLSerialize_deserialize(sh, data, f, mode, u) ==
  XMLSerialize_deserialize_body(sh, data, XMLDeserializer_ctor(f, mode), u)

\* what the call can give, over what an undefined conversion gives
XMLSerialize_deserialize_outcomes(sh, data, f, mode) ==
  LET c == XMLDeserializer_ctor(f, mode)
  IN  {XMLSerialize_deserialize_body(sh, data, c, u) : u \in UndefinedCasts}

RECURSIVE HasDouble(_)
\* whether a double is part of the shape: the text of a double attribute
\* ("%.17g") is outside the model
HasDouble(sh) ==
  CASE sh.k = "arith" -> sh.t = "double"
    [] sh.k \in {"pair", "map"} -> HasDouble(sh.a) \/ HasDouble(sh.b)
    [] sh.k \in {"vector", "list", "set"} -> HasDouble(sh.e)
    [] sh.k = "record" -> \E j \in DOMAIN sh.fields : HasDouble(sh.fields[j])
    [] OTHER -> FALSE

(***************************************************************************)
(* State.                                                                  *)
(***************************************************************************)
VARIABLES
  b64_pc,       \* where the Base64 run stands
  b64_data,     \* the bytes given to base64_encode
  b64_text,     \* the string given to base64_decode
  b64_ret,      \* what base64_decode gave: Bytes(..) or MyErr(..)
  T,            \* the shape of the type the entry points are called with
  file,         \* the target file: whether it exists, and its bytes
  src,          \* the encoding and value of the last serialize call
  dst,          \* the object deserialize is called on
  res,          \* the last call made and how it ended
  xs,           \* an XMLSerializer object
  xd            \* an XMLDeserializer object

b64vars == <<b64_pc, b64_data, b64_text, b64_ret>>
epvars == <<T, file, src, dst, res, xs, xd>>
vars == <<b64_pc, b64_data, b64_text, b64_ret, T, file, src, dst, res, xs, xd>>

NoResult == [status |-> "none"]
NoSource == [enc |-> "none", data |-> <<>>, n |-> 0]
NoCall == [op |-> "none", enc |-> "none", status |-> "none"]

\* the variables of the part of the program a specification leaves alone
B64Idle ==
  /\ b64_pc = "idle"
  /\ b64_data = <<>>
  /\ b64_text = <<>>
  /\ b64_ret = NoResult

EntryPointsIdle ==
  /\ T = String
  /\ file = NoFile
  /\ src = NoSource
  /\ dst = <<>>
  /\ res = NoCall
  /\ xs = NoSerializer
  /\ xd = NoDeserializer

(***************************************************************************)
(* The Base64 transform applied to drawn inputs: either bytes are encoded  *)
(* and the result decoded, or an arbitrary string is decoded.              *)
(***************************************************************************)
B64Init ==
  /\ EntryPointsIdle
  /\ b64_ret = NoResult
  /\ \/ /\ b64_pc = "encode"
        /\ b64_data \in SeqsUpTo(SampleBytes, MaxBytes)
        /\ b64_text = <<>>
     \/ /\ b64_pc = "decode"
        /\ b64_data = <<>>
        /\ b64_text \in SeqsUpTo(SampleChars, MaxText)

B64Encode ==
  /\ b64_pc = "encode"
  /\ b64_text' = base64_encode(b64_data)
  /\ b64_pc' = "encoded"
  /\ UNCHANGED <<b64_data, b64_ret>>
  /\ UNCHANGED epvars

\* whitespace or line breaks put into an encoded string before it is decoded
MaxInserts == 2

\* the characters put in: a space, a line feed
Whitespace == {32, 10}

\* the encoded string with c put in after its first k characters
InsertAt(s, k, c) == SubSeq(s, 1, k) \o <<c>> \o SubSeq(s, k + 1, Len(s))

\* the bytes of the inputs whose encoding is broken up
SpacedBytes == {77, 255}

\* the caller breaks or pads the encoded string before handing it back
B64Insert ==
  /\ b64_pc \in {"encoded", "spaced"}
  /\ b64_data \in SeqsUpTo(SpacedBytes, MaxBytes)
  /\ Len(b64_text) < Len(base64_encode(b64_data)) + MaxInserts
  /\ \E k \in 0..Len(b64_text), c \in Whitespace :
       b64_text' = InsertAt(b64_text, k, c)
  /\ b64_pc' = "spaced"
  /\ UNCHANGED <<b64_data, b64_ret>>
  /\ UNCHANGED epvars

B64Decode ==
  /\ b64_pc \in {"encoded", "spaced", "decode"}
  /\ b64_ret' = base64_decode(b64_text)
  /\ b64_pc' = CASE b64_pc = "encoded" -> "roundtrip"
                 [] b64_pc = "spaced" -> "spaced_roundtrip"
                 [] OTHER -> "decoded"
  /\ UNCHANGED <<b64_data, b64_text>>
  /\ UNCHANGED epvars

B64Next == B64Encode \/ B64Insert \/ B64Decode

SpecB64 == B64Init /\ [][B64Next]_vars

\* the name an encoding has in res and src
EncOf(mode) == IF mode = "text" THEN "xml" ELSE "xml_base64"

\* documents of other programs: an empty one, one whose only element is not
\* the root, one whose root holds no <field>
ForeignDocs ==
  { <<>>,
    <<SetAttribute(NewElement("field"), <<53>>)>>,
    <<InsertEndChild(NewElement("serialization"),
                     SetAttribute(NewElement("item"), <<53>>))>> }

\* the file that holds doc in a mode
FileOf(doc, mode) ==
  WriteFile(IF mode = "text" THEN PrintDocument(doc) ELSE XMLConverter_encode(doc))

\* a Base64 file cut short: its length is not a multiple of 4
CutBase64 == WriteFile(SubSeq(XMLConverter_encode(<<NewElement("serialization")>>), 1, 3))

\* the targets a run starts on, with what each holds: no file, a path that
\* cannot be opened, or a file some other program wrote
InitialTargets ==
  { [file |-> NoFile, src |-> NoSource],
    [file |-> NoDirectory, src |-> NoSource],
    [file |-> CutBase64, src |-> [enc |-> "xml_base64", data |-> <<>>, n |-> 0]] }
  \cup { [file |-> FileOf(doc, mode),
          src  |-> [enc |-> EncOf(mode), data |-> doc, n |-> 0]] :
         doc \in ForeignDocs, mode \in {"text", "binary"} }

\* serialize calls made on one target in a run
MaxWrites == 2

\* the types a run serializes more than once, or over another program's file
RewriteShapes ==
  { Arith("bool"), Arith("int"), String, Pair(String, Arith("int")), Flags }

(***************************************************************************)
(* The entry points, called on one target file by a program whose value    *)
(* type is T: any number of serialize calls, then deserialize calls on a   *)
(* destination that held a prior value.                                    *)
(***************************************************************************)
Init ==
  /\ B64Idle
  /\ \E k \in DOMAIN Shapes : T = Shapes[k]
  /\ \E t \in InitialTargets : file = t.file /\ src = t.src
  /\ dst \in PriorValues(T)
  /\ res = NoCall
  /\ xs = NoSerializer
  /\ xd = NoDeserializer

Result(op, enc, status) == [op |-> op, enc |-> enc, status |-> status]

\* a run makes its serialize calls, then its deserialize calls; only the types
\* of RewriteShapes are serialized again, or over another program's file
NotSerialized ==
  /\ res.op = "deserialize" => res.status # "ok"
  /\ \/ src = NoSource
     \/ T \in RewriteShapes /\ src.n < MaxWrites

\* BinarySerialize::serialize(data, file_name)
BinarySerialize_serialize_call ==
  /\ WellFormed(T)
  /\ NotSerialized
  /\ \E data \in ValuesOf(T, MaxLen) :
       /\ file' = Written(file, BinarySerialize_serialize(T, data))
       /\ src' = [enc |-> "binary", data |-> data, n |-> src.n + 1]
  /\ res' = Result("serialize", "binary", "ok")
  /\ UNCHANGED <<T, dst, xs, xd>>
  /\ UNCHANGED b64vars

\* BinarySerialize::deserialize(data, file_name): the constructor throws when
\* the file does not open; the file read is one BinarySerializer wrote for
\* the same type (any other is undefined behaviour the model leaves out)
BinarySerialize_deserialize_call ==
  /\ WellFormed(T)
  /\ IF ~file.exists
     THEN /\ res' = Result("deserialize", "binary", "MyErr")
          /\ dst' = dst
     ELSE /\ src.enc = "binary"
          /\ \E r \in {BinarySerialize_deserialize(T, dst, file.bytes)} :
               /\ ~r.st.ub
               /\ dst' = r.data
               /\ res' = Result("deserialize", "binary", "ok")
  /\ UNCHANGED <<T, file, src, xs, xd>>
  /\ UNCHANGED b64vars

\* a serialize entry point of namespace XMLSerialize
XMLSerialize_serialize_call(enc, mode) ==
  /\ WellFormed(T)
  /\ ~HasDouble(T)
  /\ NotSerialized
  /\ \E data \in ValuesOf(T, MaxLen) :
       /\ file' = Written(file, XMLSerialize_serialize(T, data, mode))
       /\ src' = [enc |-> enc, data |-> data, n |-> src.n + 1]
  /\ res' = Result("serialize", enc, "ok")
  /\ UNCHANGED <<T, dst, xs, xd>>
  /\ UNCHANGED b64vars

\* a deserialize entry point of namespace XMLSerialize, on no file or on the
\* file the matching serialize entry point wrote; what an undefined
\* conversion gives is the build's choice
XMLSerialize_deserialize_call(enc, mode) ==
  /\ WellFormed(T)
  /\ ~HasDouble(T)
  /\ file.exists => src.enc = enc
  /\ \E r \in XMLSerialize_deserialize_outcomes(T, dst, file, mode) :
       /\ dst' = r.data
       /\ res' = Result("deserialize", enc, r.status)
  /\ UNCHANGED <<T, file, src, xs, xd>>
  /\ UNCHANGED b64vars

\* XMLSerialize::serialize_xml(data, file_name)
serialize_xml == XMLSerialize_serialize_call("xml", "text")

\* XMLSerialize::deserialize_xml(data, file_name)
deserialize_xml == XMLSerialize_deserialize_call("xml", "text")

\* XMLSerialize::serialize_xml_base64(data, file_name)
serialize_xml_base64 == XMLSerialize_serialize_call("xml_base64", "binary")

\* XMLSerialize::deserialize_xml_base64(data, file_name)
deserialize_xml_base64 == XMLSerialize_deserialize_call("xml_base64", "binary")

Next ==
  \/ BinarySerialize_serialize_call
  \/ BinarySerialize_deserialize_call
  \/ serialize_xml
  \/ deserialize_xml
  \/ serialize_xml_base64
  \/ deserialize_xml_base64

Spec == Init /\ [][Next]_vars

(***************************************************************************)
(* The XML codec objects used directly: one XMLSerializer is constructed,  *)
(* process is called on it, it is destroyed; one XMLDeserializer is        *)
(* constructed over the target file and process is called on it.  Every    *)
(* process call is made with a value of type T; the deserializer reads     *)
(* into the one destination dst.  The target file is absent at first, or   *)
(* holds a document some other program wrote.                              *)
(***************************************************************************)
\* fields written by one serializer
MaxFields == 2

\* process calls made on a deserializer beyond the fields of its document
MaxExtraCalls == 2

CodecShapes == <<Arith("int"), String, Vector(Arith("char"))>>

CodecInit ==
  /\ B64Idle
  /\ \E k \in DOMAIN CodecShapes : T = CodecShapes[k]
  /\ dst \in PriorValues(T)
  /\ res = NoCall
  /\ xs = NoSerializer
  /\ xd = NoDeserializer
  /\ \/ /\ file = NoFile
        /\ src = NoSource
     \/ \E doc \in ForeignDocs, mode \in {"text", "binary"} :
          /\ file = FileOf(doc, mode)
          /\ src = [enc |-> EncOf(mode), data |-> doc, n |-> 0]

\* XMLSerializer processor(file_name) / XMLSerializerBase64 processor(file_name)
XMLSerializer_new ==
  /\ xs = NoSerializer
  /\ ~xd.alive
  /\ \E mode \in {"text", "binary"} :
       /\ xs' = XMLSerializer_ctor(mode)
       /\ res' = Result("XMLSerializer", EncOf(mode), "ok")
  /\ UNCHANGED <<T, file, src, dst, xd>>
  /\ UNCHANGED b64vars

\* processor.process(data) on the serializer
XMLSerializer_process_call ==
  /\ xs.alive
  /\ Len(xs.root_ele.kids) < MaxFields
  /\ \E data \in ValuesOf(T, 1) : xs' = XMLSerializer_process(xs, T, data)
  /\ res' = Result("process", EncOf(xs.mode), "ok")
  /\ UNCHANGED <<T, file, src, dst, xd>>
  /\ UNCHANGED b64vars

\* the serializer goes out of scope: ~XMLSerializer() writes the file
XMLSerializer_delete ==
  /\ xs.alive
  /\ file' = Written(file, XMLSerializer_dtor(xs))
  /\ src' = [enc |-> EncOf(xs.mode), data |-> <<xs.root_ele>>, n |-> src.n + 1]
  /\ xs' = [xs EXCEPT !.alive = FALSE]
  /\ res' = Result("~XMLSerializer", EncOf(xs.mode), "ok")
  /\ UNCHANGED <<T, dst, xd>>
  /\ UNCHANGED b64vars

\* XMLDeserializer processor(file_name) / XMLDeserializerBase64
\* processor(file_name), over no file or a file of the same mode
XMLDeserializer_new ==
  /\ ~xs.alive
  /\ ~xd.alive
  /\ \E mode \in {"text", "binary"} :
       /\ file.exists => src.enc = EncOf(mode)
       /\ \E c \in {XMLDeserializer_ctor(file, mode)} :
            /\ xd' = c.xd
            /\ res' = Result("XMLDeserializer", EncOf(mode), c.status)
  /\ UNCHANGED <<T, file, src, dst, xs>>
  /\ UNCHANGED b64vars

\* processor.process(dst) on the deserializer; nothing is modelled after a
\* call whose behaviour was undefined
XMLDeserializer_process_call ==
  /\ xd.alive
  /\ res.status # "ub"
  /\ xd.calls < Len(ChildrenNamed(xd.root_ele, "field")) + MaxExtraCalls
  /\ \E r \in {XMLDeserializer_process(xd, T, dst, u) : u \in UndefinedCasts} :
       /\ xd' = r.xd
       /\ dst' = r.data
       /\ res' = Result("process", EncOf(xd.mode), r.status)
  /\ UNCHANGED <<T, file, src, xs>>
  /\ UNCHANGED b64vars

CodecNext ==
  \/ XMLSerializer_new
  \/ XMLSerializer_process_call
  \/ XMLSerializer_delete
  \/ XMLDeserializer_new
  \/ XMLDeserializer_process_call

SpecCodec == CodecInit /\ [][CodecNext]_vars

(***************************************************************************)
(* A deserializer of one type over the file a serializer of another type   *)
(* wrote: a one-field document written with a value of a type W is read    *)
(* with process calls of type T.                                           *)
(***************************************************************************)
MismatchShapes ==
  << Arith("int"), String, Pair(String, Arith("int")), Vector(Arith("int")),
     List(Arith("int")), Set(Arith("int")), Map(String, Arith("int")),
     Vector(Pair(String, Arith("int"))) >>

\* the document serialize_xml / serialize_xml_base64 leaves for one value
OneFieldDocument(sh, data) ==
  <<XMLSerializer_process(XMLSerializer_ctor("text"), sh, data).root_ele>>

ShapesInit ==
  /\ B64Idle
  /\ \E k \in DOMAIN MismatchShapes : T = MismatchShapes[k]
  /\ dst \in PriorValues(T)
  /\ res = NoCall
  /\ xs = NoSerializer
  /\ xd = NoDeserializer
  /\ \E k \in DOMAIN MismatchShapes, mode \in {"text", "binary"} :
       \E data \in ValuesOf(MismatchShapes[k], 1) :
         LET doc == OneFieldDocument(MismatchShapes[k], data)
         IN  /\ file = FileOf(doc, mode)
             /\ src = [enc |-> EncOf(mode), data |-> doc, n |-> 1]

ShapesNext ==
  \/ XMLDeserializer_new
  \/ XMLDeserializer_process_call

SpecShapes == ShapesInit /\ [][ShapesNext]_vars

(***************************************************************************)
(* Claims about the Base64 transform (checked under SpecB64).              *)
(***************************************************************************)
\* the 64 alphabet characters: A-Z, a-z, 0-9, '+', '/'
Alphabet == (65..90) \cup (97..122) \cup (48..57) \cup {43, 47}

\* the number of characters of s that are in the alphabet or are '='
FilteredLength(s) ==
  Cardinality({k \in DOMAIN s : s[k] \in Alphabet \cup {PadChar}})

\* the number of '=' that end s
RECURSIVE TrailingPads(_)
TrailingPads(s) ==
  IF s # <<>> /\ s[Len(s)] = PadChar
  THEN 1 + TrailingPads(SubSeq(s, 1, Len(s) - 1))
  ELSE 0

\* C5: decoding what base64_encode gave returns the bytes that were encoded,
\* for every length and every byte value; the empty sequence encodes to the
\* empty string and the empty string decodes to the empty sequence.
C5_Base64RoundTrip ==
  /\ b64_pc = "roundtrip" => b64_ret = Bytes(b64_data)
  /\ b64_pc \in {"encoded", "roundtrip"} /\ b64_data = <<>> => b64_text = <<>>
  /\ b64_pc = "decoded" /\ b64_text = <<>> => b64_ret = Bytes(<<>>)

\* a 4-byte input (length 1 modulo 3) holding a zero byte has been encoded
\* and decoded
C5_Witness ==
  /\ b64_pc = "roundtrip"
  /\ Len(b64_data) = 4
  /\ \E k \in DOMAIN b64_data : b64_data[k] = 0
  /\ \E k \in DOMAIN b64_data : b64_data[k] = 255
  /\ b64_ret.status = "ok"

\* C6: the encoding of n bytes has 4 characters per 3-byte group, ends with
\* two '=' when n mod 3 = 1, one when n mod 3 = 2 and none when n mod 3 = 0,
\* and holds no '=' anywhere else.
C6_Base64Padding ==
  b64_pc \in {"encoded", "roundtrip"} =>
    LET n    == Len(b64_data)
        pads == CASE n % 3 = 1 -> 2 [] n % 3 = 2 -> 1 [] OTHER -> 0
    IN  /\ Len(b64_text) = 4 * ((n + 2) \div 3)
        /\ TrailingPads(b64_text) = pads
        /\ \A k \in DOMAIN b64_text :
             b64_text[k] = PadChar => k > Len(b64_text) - pads

\* a 4-byte input has been encoded to 8 characters ending in "=="
C6_Witness ==
  /\ b64_pc = "encoded"
  /\ Len(b64_data) = 4
  /\ Len(b64_text) = 8
  /\ b64_text[7] = PadChar /\ b64_text[8] = PadChar
  /\ b64_text[6] # PadChar

\* C7: base64_decode throws MyErr, returning no bytes, whenever the number of
\* input characters in the alphabet or equal to '=' is not a multiple of 4.
C7_Base64LengthRejected ==
  b64_pc = "decoded" /\ FilteredLength(b64_text) % 4 # 0 =>
    b64_ret = MyErr("Invalid Base64 string length.")

\* a string with skipped characters and three kept ones has been rejected
C7_Witness ==
  /\ b64_pc = "decoded"
  /\ FilteredLength(b64_text) = 3
  /\ Len(b64_text) = 5
  /\ b64_ret.status = "MyErr"

\* C8: a '=' that is followed by further alphabet characters, in an input
\* whose filtered length is a multiple of 4, makes base64_decode throw MyErr
\* instead of returning bytes.
C8_InvalidCharRejected ==
  ( /\ b64_pc = "decoded"
    /\ FilteredLength(b64_text) % 4 = 0
    /\ \E j, k \in DOMAIN b64_text :
         j < k /\ b64_text[j] = PadChar /\ b64_text[k] \in Alphabet )
  => b64_ret.status = "MyErr"

C2_XMLRoundTrip ==
  ( /\ res.op = "deserialize"
    /\ res.enc \in {"xml", "xml_base64"}
    /\ src.n > 0
    /\ file.exists
    /\ T.k # "record" )
  => res.status = "ok" /\ dst = src.data

\* C3: for a record type declared with MY_SERIALIZE, deserializing what was
\* serialized gives back the record field for field, the fields written and
\* read in declared order, under the binary, XML-text and XML-binary
\* encodings.
C3_RecordRoundTrip ==
  res.op = "deserialize" /\ src.n > 0 /\ file.exists /\ T.k = "record" =>
    res.status = "ok" /\ dst = src.data

\* whether a record is part of a shape
RECURSIVE HasRecord(_)
HasRecord(sh) ==
  CASE sh.k = "record" -> TRUE
    [] sh.k \in {"pair", "map"} -> HasRecord(sh.a) \/ HasRecord(sh.b)
    [] sh.k \in {"vector", "list", "set"} -> HasRecord(sh.e)
    [] OTHER -> FALSE

\* a record with a field that is a record or a container of records
NestedRecord(sh) ==
  sh.k = "record" /\ \E j \in DOMAIN sh.fields : HasRecord(sh.fields[j])

\* C4: a record whose field is a record, or a container whose elements are
\* records (a map with record values among them), has its entry points: the
\* dispatch takes it apart field by field, and it round-trips under the three
\* encodings.
C4_NestedRecords ==
  NestedRecord(T) =>
    /\ WellFormed(T)
    /\ res.op = "deserialize" /\ src.n > 0 /\ file.exists =>
         res.status = "ok" /\ dst = src.data

(***************************************************************************)
(* Claims about the XML codec objects (checked under SpecCodec).           *)
(***************************************************************************)
\* whether a document has a <serialization> element with a <field> child
HasRootWithField(doc) ==
  \E i \in DOMAIN doc :
    /\ doc[i].name = "serialization"
    /\ \E j \in DOMAIN doc[i].kids : doc[i].kids[j].name = "field"

\* the number of <field> elements under the root of the document the file holds
FieldCount ==
  Cardinality({j \in DOMAIN src.data[1].kids : src.data[1].kids[j].name = "field"})

\* C9: on an XMLDeserializer over a document with n <field> elements, each of
\* the first n process calls succeeds, and every later one fails with MyErr
\* and leaves the destination as it was.
C9_StructuralExhaustion ==
  [][ xd.alive /\ xd'.calls = xd.calls + 1 =>
        IF xd'.calls <= FieldCount
        THEN res'.status = "ok"
        ELSE res'.status = "MyErr" /\ dst' = dst ]_vars

\* both fields of a two-field document were read, the second one "a", and a
\* third and a fourth call have failed: the destination still holds "a"
C9_Witness ==
  /\ xd.alive
  /\ T = String
  /\ FieldCount = 2
  /\ xd.calls = 4
  /\ res = Result("process", "xml_base64", "MyErr")
  /\ dst = <<97>>

\* C10: constructing an XMLDeserializer, in text or binary mode, over a file
\* whose document has no <serialization> element or whose root has no <field>
\* child fails with MyErr, and leaves no deserializer to call process on.
C10_MissingRootOrField ==
  ( /\ res.op = "XMLDeserializer"
    /\ file.exists
    /\ ~HasRootWithField(src.data) )
  => res.status = "MyErr" /\ ~xd.alive

\* the constructor has failed over the file a binary-mode XMLSerializer wrote
\* without any process call
C10_Witness ==
  /\ res = Result("XMLDeserializer", "xml_base64", "MyErr")
  /\ xs = [alive |-> FALSE, mode |-> "binary", root_ele |-> NewElement("serialization")]
  /\ src.data = <<NewElement("serialization")>>
  /\ file.exists
  /\ ~xd.alive

(***************************************************************************)
(* Claims about reading a document of another shape (checked under         *)
(* SpecShapes).                                                            *)
(***************************************************************************)
\* whether what a reader of shape sh looks up first under pos is absent: the
\* val attribute for a scalar or a string, the child element named after the
\* category for a pair or a container
Lacks(sh, pos) ==
  IF sh.k \in {"arith", "string"}
  THEN ~pos.has
  ELSE \A j \in DOMAIN pos.kids : pos.kids[j].name # sh.k

\* C11: a top-level process call whose expected attribute or child element is
\* absent from the field it reads fails with MyErr, an error the caller can
\* catch.
C11_ShapeMismatchReported ==
  ( /\ res.op = "process"
    /\ xd.calls = 1
    /\ Lacks(T, src.data[1].kids[1]) )
  => res.status = "MyErr"

(***************************************************************************)
(* Claims about the target file (checked under Spec).                      *)
(***************************************************************************)
\* C12: an entry point whose target could not be opened, for writing by a
\* serialize call or for reading by a deserialize call, ends with MyErr: none
\* completes normally. (A target that does not exist after a call is one
\* the call failed to open.)
C12_OpenFailureSurfaced ==
  (res.op \in {"serialize", "deserialize"} /\ ~file.exists)
  => res.status = "MyErr"

\* what a serialize entry point of encoding enc writes for data
Encoding(enc, sh, data) ==
  CASE enc = "binary" -> BinarySerialize_serialize(sh, data)
    [] enc = "xml" -> XMLSerialize_serialize(sh, data, "text")
    [] enc = "xml_base64" -> XMLSerialize_serialize(sh, data, "binary")

\* whether the target was written by a serialize call of this run
Serialized == src.n > 0 /\ file.writable

\* the frame part of C13: after any number of serialize calls the target holds
\* the encoding of the last value and nothing else
OnlyLastEncoding ==
  Serialized => file.bytes = Encoding(src.enc, T, src.data)

\* C13: after any sequence of serialize calls on one target, under any
\* encoding, the target holds only the encoding of the last value, so the
\* deserialize call that follows returns the last value written.
C13_LastWriteWins ==
  /\ OnlyLastEncoding
  /\ (Serialized /\ res.op = "deserialize")
     => (res.status = "ok" /\ dst = src.data)

\* C14: a set or a map is written in ascending key order whatever the
\* encoding, so serializing again the set or map that deserialize returned
\* gives the encoding the target already holds.
C14_CanonicalOrder ==
  ( /\ T.k \in {"set", "map"}
    /\ Serialized
    /\ res.op = "deserialize"
    /\ res.status = "ok" )
  => Encoding(src.enc, T, dst) = file.bytes

\* whether values of the shape are containers written with a count
IsContainer(sh) == sh.k \in {"vector", "list", "set", "map"}

\* the element the only field of the target holds for a container: <vector>,
\* <list>, <set> or <map>
ContainerElement(f, mode) ==
  LET c == XMLDeserializer_ctor(f, mode).xd
  IN  c.root_ele.kids[c.cur_ele].kids[1]

\* the element count the target stores for the container it holds: the size_t
\* that leads the binary file, the val of <length> in an XML file
WireCount(enc, f) ==
  IF enc = "binary"
  THEN FromSizeT(SubSeq(f.bytes, 1, 8))
  ELSE LET len_ele ==
             FirstChildElement(ContainerElement(f, IF enc = "xml" THEN "text"
                                                   ELSE "binary"), "length")
       IN  FromSizeT(DigitsValue(len_ele.val, 1, ToSizeT(0)))

\* whether the count leads what is stored for the container
CountFirst(enc, f) ==
  enc # "binary" =>
    ContainerElement(f, IF enc = "xml" THEN "text" ELSE "binary").kids[1].name
      = "length"

\* C15: a container is written with its element count first, and a
\* destination container a deserialize call filled holds exactly as many
\* elements as the count the target stores, whatever it held before.
C15_CountAndReset ==
  ( /\ IsContainer(T)
    /\ Serialized
    /\ res.op = "deserialize"
    /\ res.status = "ok" )
  => /\ CountFirst(src.enc, file)
     /\ WireCount(src.enc, file) = Len(src.data)
     /\ Len(dst) = WireCount(src.enc, file)

(***************************************************************************)
(* Claims about the life of the XML codec objects (checked under           *)
(* SpecCodec).                                                             *)
(***************************************************************************)
\* the <field> a top-level process call builds for data
FieldOf(sh, data) == XMLSerializer_process_at(sh, data, NewElement("field"))

\* the document a parser finds in the file f of a mode
DocumentIn(f, mode) ==
  IF mode = "text"
  THEN ParseDocument(c_str(f.bytes)).doc
  ELSE ParseDocument(c_str(base64_decode(f.bytes).bytes)).doc

\* C16: an XMLSerializer, in text or binary mode, leaves its target alone
\* while process calls are made, each of which adds one <field> after those
\* of the earlier calls; the target is written only by the step that ends the
\* serializer's life, after any number of calls, and then holds the root with
\* the fields of all the calls in call order.
C16_SingleFlush ==
  [][ /\ file' # file => (xs.alive /\ ~xs'.alive)
      /\ (xs.alive /\ xs'.alive) =>
           \E data \in ValuesOf(T, 1) :
             xs'.root_ele.kids = Append(xs.root_ele.kids, FieldOf(T, data))
      /\ (xs.alive /\ ~xs'.alive) =>
           /\ file'.exists
           /\ DocumentIn(file', xs.mode) = <<xs.root_ele>>
           /\ \A j \in DOMAIN xs.root_ele.kids : xs.root_ele.kids[j].name = "field"
    ]_vars

\* a serializer in binary mode took the strings "a" and then "", and was
\* destroyed: the file holds the two fields in that order
C16_Witness ==
  /\ T = String
  /\ res = Result("~XMLSerializer", "xml_base64", "ok")
  /\ ~xs.alive
  /\ xs.root_ele.kids = <<FieldOf(String, <<97>>), FieldOf(String, <<>>)>>
  /\ DocumentIn(file, "binary") = <<xs.root_ele>>

\* the <field> children of the root of the document the file holds, in
\* document order
FieldsOfFile == ChildrenNamed(src.data[1], "field")

\* the place of the cursor among the <field> children of the root: 1 for the
\* first, one more than their number when the cursor is null
CursorRank(d) ==
  IF d.cur_ele = 0 THEN Len(ChildrenNamed(d.root_ele, "field")) + 1
  ELSE Cardinality({j \in 1..d.cur_ele : d.root_ele.kids[j].name = "field"})

\* C17: the k-th top-level process call on an XMLDeserializer reads the k-th
\* <field> of the root in document order, and leaves the cursor exactly one
\* field further, whatever nested calls decoding the value took.
C17_CursorOrder ==
  [][ (xd.alive /\ xd'.calls = xd.calls + 1 /\ res'.status = "ok") =>
        /\ xd'.calls <= Len(FieldsOfFile)
        /\ CursorRank(xd) = xd'.calls
        /\ CursorRank(xd') = xd'.calls + 1
        /\ \E u \in UndefinedCasts :
             dst' = XMLDeserializer_process_at(T, dst, FieldsOfFile[xd'.calls], u).data
    ]_vars

\* a deserializer over a file of two vector fields, the second one empty, has made two
\* calls: the destination holds the second vector, the cursor is past the end
C17_Witness ==
  /\ T = Vector(Arith("char"))
  /\ xd.alive
  /\ xd.calls = 2
  /\ res = Result("process", "xml", "ok")
  /\ Len(FieldsOfFile) = 2
  /\ FieldsOfFile[1] # FieldsOfFile[2]
  /\ FieldsOfFile[2] = FieldOf(T, <<>>)
  /\ dst = <<>>
  /\ xd.cur_ele = 0

(***************************************************************************)
(* A further claim about the Base64 transform (checked under SpecB64).     *)
(***************************************************************************)
\* s without its characters outside A-Z, a-z, 0-9, '+', '/', '='
Strip(s) == SelectSeq(s, LAMBDA c : c \in Alphabet \cup {PadChar})

\* C18: base64_decode gives for every string what it gives for the string
\* without its characters outside the alphabet and '=', the same bytes or the
\* same error; an encoding with spaces and line feeds put anywhere into it
\* still decodes to the bytes that were encoded.
C18_NonAlphabetSkipped ==
  /\ b64_pc \in {"decoded", "spaced_roundtrip"} =>
       b64_ret = base64_decode(Strip(b64_text))
  /\ b64_pc = "spaced_roundtrip" =>
       /\ Strip(b64_text) = base64_encode(b64_data)
       /\ b64_ret = Bytes(b64_data)

\* the encoding of four bytes, broken by a line feed at its start and a space
\* before its padding, has been decoded to the four bytes
C18_Witness ==
  /\ b64_pc = "spaced_roundtrip"
  /\ b64_data = <<77, 255, 255, 77>>
  /\ Len(b64_text) = 10
  /\ b64_text[1] = 10
  /\ b64_text[8] = 32
  /\ b64_text[9] = PadChar
  /\ b64_ret = Bytes(b64_data)

(***************************************************************************)
(* A claim about failed deserialize calls (checked under Spec).            *)
(***************************************************************************)
\* C19: a deserialize, deserialize_xml or deserialize_xml_base64 call for a
\* value that is not a record, when it fails with MyErr (the target is
\* missing or cannot be opened, its Base64 length is invalid, its document
\* has no root or the root no field), leaves the destination holding the
\* value it had before the call.
C19_DestinationUntouched ==
  [][ (T.k # "record" /\ res'.op = "deserialize" /\ res'.status = "MyErr")
        => dst' = dst ]_vars

\* deserialize_xml_base64 into a string that held a value has failed on a
\* file whose Base64 length is not a multiple of 4
C19_Witness ==
  /\ T = String
  /\ file = CutBase64
  /\ res = Result("deserialize", "xml_base64", "MyErr")
  /\ dst = Filled(String)
  /\ dst # Default(String)

====
